---- MODULE Spec2Model ----
(***************************************************************************)
(* cerise_manager.service: lifecycle operations on Docker containers that  *)
(* run a Cerise service.  The module keeps no state of its own; all state  *)
(* lives in the Docker daemon, which is modelled here as a set of          *)
(* containers plus the host ports held by foreign processes.              *)
(*                                                                         *)
(* Docker behaviour the handlers rely on:                                  *)
(*   - containers.run(detach=True) is create followed by start.  create   *)
(*     fails with a name conflict when the name is taken; start fails     *)
(*     when the host port cannot be bound, and then the container that    *)
(*     create made stays behind in status "created".                      *)
(*   - a host port is held only while its container is running.           *)
(*   - start on a running container and stop on a container that is not   *)
(*     running answer "not modified", which the client does not raise.    *)
(*   - remove (without force) refuses a running container.                *)
(* The images passed in are images the daemon can run.                     *)
(***************************************************************************)
EXTENDS Integers, FiniteSets, Sequences, TLC

\* ---------------------------------------------------------------- bounds
\* How many container names the callers use.
NumNames == 2

\* The port the service listens on inside the container; the host ports
\* the callers ask for are this one and the next.
BasePort == 29593

NameSeq == <<"svc_a", "svc_b", "svc_c", "svc_d">>
Names == {NameSeq[i] : i \in 1..NumNames}
Ports == {BasePort, BasePort + 1}
Images == {"mdstudio/cerise:develop", "mdstudio/cerise:latest"}

\* ------------------------------------------------------------- variables
VARIABLES
    containers,   \* the daemon's containers: [name, port, status, environment]
    hostPorts,    \* host ports bound by processes that are not containers
    call,         \* the last call made on the module and how it ended
    procs         \* concurrent callers: the call each is in and how far it is

vars == <<containers, hostPorts, call, procs>>

Statuses == {"created", "running", "exited"}

\* ---------------------------------------------------------- credentials
\* An optional argument: None, or a one-element tuple holding the string.
None == <<>>
Some(str) == <<str>>
UserNames == {None, Some(""), Some("alice")}
Passwords == {None, Some(""), Some("secret")}

\* 'http://localhost:{}/files'.format(port)
StoreLocation(port) == "http://localhost:" \o ToString(port) \o "/files"

\* The environment dictionary create_service hands to the container.
Environment(port, user_name, password) ==
    LET location == ("CERISE_STORE_LOCATION_CLIENT" :> StoreLocation(port))
        user == IF user_name = Some("") THEN None ELSE user_name
        withUser == IF user # None
                    THEN ("CERISE_USERNAME" :> user[1]) @@ location
                    ELSE location
    IN IF password # None
       THEN ("CERISE_PASSWORD" :> password[1]) @@ withUser
       ELSE withUser

\* ------------------------------------------------------- ManagedService
ManagedService(name, port) == [_name |-> name, _port |-> port]

Handles == {ManagedService(n, p) : n \in Names, p \in Ports}
NoService == [_name |-> "", _port |-> 0]
NoDict == [name |-> "", port |-> 0]
NoImage == ""

\* -------------------------------------------------------- Docker daemon
NoError == {}
NameConflict == {"Conflict. The container name", "is already in use by container"}
PortAllocated == {"driver failed programming external connectivity",
                  "port is already allocated"}
AddressInUse == {"driver failed programming external connectivity",
                 "address already in use"}
RemoveRunning == {"You cannot remove a running container"}
NoSuchContainer == {"No such container"}

Named(rt, name) == {c \in rt : c.name = name}
NameUsed(rt, name) == Named(rt, name) # {}

\* dc.containers.get(name): the container, or docker.errors.NotFound
ContainersGet(rt, name) ==
    IF NameUsed(rt, name)
    THEN [found |-> TRUE, container |-> CHOOSE c \in rt : c.name = name]
    ELSE [found |-> FALSE, container |-> [name |-> name, port |-> 0, status |-> "none"]]

PortBoundByContainer(rt, port) ==
    \E c \in rt : c.status = "running" /\ c.port = port

SetStatus(rt, name, status) ==
    {IF c.name = name THEN [c EXCEPT !.status = status] ELSE c : c \in rt}

\* container.start() on a daemon that does not look at the ports of the
\* other containers
ContainerStart_any_port(rt, host, name) ==
    LET c == ContainersGet(rt, name).container IN
    IF c.status = "running" THEN [rt |-> rt, error |-> NoError]
    ELSE IF c.port \in host THEN [rt |-> rt, error |-> AddressInUse]
    ELSE [rt |-> SetStatus(rt, name, "running"), error |-> NoError]

\* container.start()
ContainerStart(rt, host, name) ==
    LET c == ContainersGet(rt, name).container IN
    IF c.status = "running" THEN [rt |-> rt, error |-> NoError]
    ELSE IF c.port \in host THEN [rt |-> rt, error |-> AddressInUse]
    ELSE IF PortBoundByContainer(rt, c.port) THEN [rt |-> rt, error |-> PortAllocated]
    ELSE [rt |-> SetStatus(rt, name, "running"), error |-> NoError]

\* container.stop()
ContainerStop(rt, name) ==
    LET c == ContainersGet(rt, name).container IN
    IF c.status = "running" THEN SetStatus(rt, name, "exited") ELSE rt

\* container.remove()
ContainerRemove(rt, name) ==
    LET c == ContainersGet(rt, name).container IN
    IF c.status = "running" THEN [rt |-> rt, error |-> RemoveRunning]
    ELSE [rt |-> rt \ Named(rt, name), error |-> NoError]

\* The create half of dc.containers.run
ContainersCreate(rt, name, port, environment) ==
    IF NameUsed(rt, name) THEN [rt |-> rt, error |-> NameConflict]
    ELSE [rt |-> rt \cup {[name |-> name, port |-> port, status |-> "created",
                           environment |-> environment]},
          error |-> NoError]

\* dc.containers.run(image, name=..., ports=..., environment=..., detach=True)
ContainersRun(rt, host, name, port, environment) ==
    LET made == ContainersCreate(rt, name, port, environment) IN
    IF made.error # NoError THEN made
    ELSE ContainerStart(made.rt, host, name)

\* --------------------------------------------------------------- results
Raise(rt, exception) ==
    [rt |-> rt, outcome |-> exception, srv |-> NoService, val |-> FALSE, dict |-> NoDict]
ReturnService(rt, srv) ==
    [rt |-> rt, outcome |-> "ok", srv |-> srv, val |-> FALSE, dict |-> NoDict]
ReturnBool(rt, b) ==
    [rt |-> rt, outcome |-> "ok", srv |-> NoService, val |-> b, dict |-> NoDict]
ReturnNone(rt) ==
    [rt |-> rt, outcome |-> "ok", srv |-> NoService, val |-> FALSE, dict |-> NoDict]
ReturnDict(rt, d) ==
    [rt |-> rt, outcome |-> "ok", srv |-> NoService, val |-> FALSE, dict |-> d]

\* -------------------------------------------------------------- handlers
\* create_service without the 'Conflict. The container name' branch
create_service_no_conflict_branch(rt, host, srv_name, port, srv_type, user_name, password) ==
    LET run == ContainersRun(rt, host, srv_name, port,
                             Environment(port, user_name, password)) IN
    IF run.error = NoError THEN ReturnService(run.rt, ManagedService(srv_name, port))
    ELSE IF "address already in use" \in run.error THEN Raise(run.rt, "PortNotAvailable")
    ELSE IF "port is already allocated" \in run.error THEN Raise(run.rt, "PortNotAvailable")
    ELSE Raise(run.rt, "docker.errors.APIError")

\* create_service without the 'port is already allocated' branch
create_service_no_allocated_branch(rt, host, srv_name, port, srv_type, user_name, password) ==
    LET run == ContainersRun(rt, host, srv_name, port,
                             Environment(port, user_name, password)) IN
    IF run.error = NoError THEN ReturnService(run.rt, ManagedService(srv_name, port))
    ELSE IF "address already in use" \in run.error THEN Raise(run.rt, "PortNotAvailable")
    ELSE IF "Conflict. The container name" \in run.error
         THEN Raise(run.rt, "ServiceAlreadyExists")
    ELSE Raise(run.rt, "docker.errors.APIError")

\* The except clause of create_service without the name conflict branch
RaisedByRun_no_conflict_branch(explanation) ==
    IF "address already in use" \in explanation THEN "PortNotAvailable"
    ELSE IF "port is already allocated" \in explanation THEN "PortNotAvailable"
    ELSE IF explanation = NoSuchContainer THEN "docker.errors.NotFound"
    ELSE "docker.errors.APIError"

\* The except clause of create_service: what it raises for an APIError of
\* dc.containers.run with the given explanation
RaisedByRun(explanation) ==
    IF "address already in use" \in explanation THEN "PortNotAvailable"
    ELSE IF "port is already allocated" \in explanation THEN "PortNotAvailable"
    ELSE IF "Conflict. The container name" \in explanation THEN "ServiceAlreadyExists"
    ELSE IF explanation = NoSuchContainer THEN "docker.errors.NotFound"
    ELSE "docker.errors.APIError"

create_service(rt, host, srv_name, port, srv_type, user_name, password) ==
    LET run == ContainersRun(rt, host, srv_name, port,
                             Environment(port, user_name, password)) IN
    IF run.error = NoError THEN ReturnService(run.rt, ManagedService(srv_name, port))
    ELSE Raise(run.rt, RaisedByRun(run.error))

\* destroy_service that stops the container and forgets to remove it
destroy_service_no_remove(rt, srv) ==
    IF ~ContainersGet(rt, srv._name).found THEN Raise(rt, "ServiceNotFound")
    ELSE ReturnNone(ContainerStop(rt, srv._name))

\* destroy_service that passes over a missing container in silence
destroy_service_pass(rt, srv) ==
    IF ~ContainersGet(rt, srv._name).found THEN ReturnNone(rt)
    ELSE LET stopped == ContainerStop(rt, srv._name)
             removed == ContainerRemove(stopped, srv._name)
         IN IF removed.error = NoError THEN ReturnNone(removed.rt)
            ELSE Raise(removed.rt, "docker.errors.APIError")

destroy_service(rt, srv) ==
    IF ~ContainersGet(rt, srv._name).found THEN Raise(rt, "ServiceNotFound")
    ELSE LET stopped == ContainerStop(rt, srv._name)
             removed == ContainerRemove(stopped, srv._name)
         IN IF removed.error = NoError THEN ReturnNone(removed.rt)
            ELSE Raise(removed.rt, "docker.errors.APIError")

\* service_exists that sees running containers only, as dc.containers.list()
\* would
service_exists_running_only(rt, srv_name) ==
    IF \E c \in rt : c.name = srv_name /\ c.status = "running"
    THEN ReturnBool(rt, TRUE)
    ELSE ReturnBool(rt, FALSE)

service_exists(rt, srv_name) ==
    IF ContainersGet(rt, srv_name).found THEN ReturnBool(rt, TRUE)
    ELSE ReturnBool(rt, FALSE)

\* get_service with the existence test the wrong way round
get_service_inverted(rt, srv_name, port) ==
    IF service_exists(rt, srv_name).val THEN Raise(rt, "ServiceNotFound")
    ELSE ReturnService(rt, ManagedService(srv_name, port))

get_service(rt, srv_name, port) ==
    IF ~service_exists(rt, srv_name).val THEN Raise(rt, "ServiceNotFound")
    ELSE ReturnService(rt, ManagedService(srv_name, port))

\* require_service without the fallback to get_service
require_service_no_fallback(rt, host, srv_name, port, srv_type, user_name, password) ==
    create_service(rt, host, srv_name, port, srv_type, user_name, password)

require_service(rt, host, srv_name, port, srv_type, user_name, password) ==
    LET created == create_service(rt, host, srv_name, port, srv_type,
                                  user_name, password) IN
    IF created.outcome = "ServiceAlreadyExists"
    THEN get_service(created.rt, srv_name, port)
    ELSE created

service_is_running(rt, srv) ==
    LET got == ContainersGet(rt, srv._name) IN
    IF ~got.found THEN Raise(rt, "docker.errors.NotFound")
    ELSE ReturnBool(rt, got.container.status = "running")

\* start_service that refuses a container that is running already
start_service_strict(rt, host, srv) ==
    LET got == ContainersGet(rt, srv._name) IN
    IF ~got.found THEN Raise(rt, "docker.errors.NotFound")
    ELSE IF got.container.status = "running" THEN Raise(rt, "docker.errors.APIError")
    ELSE LET started == ContainerStart(rt, host, srv._name) IN
         IF started.error = NoError THEN ReturnNone(started.rt)
         ELSE Raise(started.rt, "docker.errors.APIError")

start_service(rt, host, srv) ==
    IF ~ContainersGet(rt, srv._name).found THEN Raise(rt, "docker.errors.NotFound")
    ELSE LET started == ContainerStart(rt, host, srv._name) IN
         IF started.error = NoError THEN ReturnNone(started.rt)
         ELSE Raise(started.rt, "docker.errors.APIError")

\* stop_service that looks the container up and leaves it running
stop_service_no_stop(rt, srv) ==
    IF ~ContainersGet(rt, srv._name).found THEN Raise(rt, "docker.errors.NotFound")
    ELSE ReturnNone(rt)

stop_service(rt, srv) ==
    IF ~ContainersGet(rt, srv._name).found THEN Raise(rt, "docker.errors.NotFound")
    ELSE ReturnNone(ContainerStop(rt, srv._name))

service_to_dict(srv) == [name |-> srv._name, port |-> srv._port]

\* service_from_dict that ignores the stored port
service_from_dict_base_port(rt, srv_dict) == get_service(rt, srv_dict.name, BasePort)

service_from_dict(rt, srv_dict) == get_service(rt, srv_dict.name, srv_dict.port)

Dicts == {service_to_dict(srv) : srv \in Handles}

\* ---------------------------------------------------------------- calls
\* One call on the module: the handler runs to completion on the daemon's
\* state.  again: the call before it was the same call and returned;
\* changed: the call changed the set of containers or a status.
RecordAs(op, name, port, image, user_name, password, res) ==
    /\ containers' = res.rt
    /\ call' = [op |-> op, name |-> name, port |-> port, image |-> image,
                user_name |-> user_name, password |-> password,
                outcome |-> res.outcome, srv |-> res.srv, val |-> res.val,
                dict |-> res.dict,
                again |-> (/\ call.op = op /\ call.name = name /\ call.port = port
                           /\ call.image = image /\ call.user_name = user_name
                           /\ call.password = password /\ call.outcome = "ok"),
                changed |-> (res.rt # containers)]
    /\ UNCHANGED <<hostPorts, procs>>

\* A call that leaves user_name and password at their default, None.
Record(op, name, port, image, res) ==
    RecordAs(op, name, port, image, None, None, res)

CallCreateService ==
    \E n \in Names, p \in Ports, i \in Images :
        Record("create_service", n, p, i,
               create_service(containers, hostPorts, n, p, i, None, None))

CallDestroyService ==
    \E srv \in Handles :
        Record("destroy_service", srv._name, srv._port, NoImage,
               destroy_service(containers, srv))

CallServiceExists ==
    \E n \in Names :
        Record("service_exists", n, 0, NoImage, service_exists(containers, n))

CallGetService ==
    \E n \in Names, p \in Ports :
        Record("get_service", n, p, NoImage, get_service(containers, n, p))

CallRequireService ==
    \E n \in Names, p \in Ports, i \in Images :
        Record("require_service", n, p, i,
               require_service(containers, hostPorts, n, p, i, None, None))

CallServiceIsRunning ==
    \E srv \in Handles :
        Record("service_is_running", srv._name, srv._port, NoImage,
               service_is_running(containers, srv))

CallStartService ==
    \E srv \in Handles :
        Record("start_service", srv._name, srv._port, NoImage,
               start_service(containers, hostPorts, srv))

CallStopService ==
    \E srv \in Handles :
        Record("stop_service", srv._name, srv._port, NoImage,
               stop_service(containers, srv))

CallServiceToDict ==
    \E srv \in Handles :
        Record("service_to_dict", srv._name, srv._port, NoImage,
               ReturnDict(containers, service_to_dict(srv)))

CallServiceFromDict ==
    \E d \in Dicts :
        Record("service_from_dict", d.name, d.port, NoImage,
               service_from_dict(containers, d))

NoCall ==
    [op |-> "none", name |-> "", port |-> 0, image |-> NoImage,
     user_name |-> None, password |-> None,
     outcome |-> "ok", srv |-> NoService, val |-> FALSE,
     dict |-> NoDict, again |-> FALSE, changed |-> FALSE]

Callers == {"caller_1", "caller_2"}
Idle == [op |-> "none", name |-> "", port |-> 0, clear |-> FALSE,
         pc |-> "idle", outcome |-> "none"]

Init ==
    /\ containers = {}
    /\ hostPorts \in SUBSET Ports
    /\ call = NoCall
    /\ procs = [p \in Callers |-> Idle]

Next ==
    \/ CallCreateService
    \/ CallDestroyService
    \/ CallServiceExists
    \/ CallGetService
    \/ CallRequireService
    \/ CallServiceIsRunning
    \/ CallStartService
    \/ CallStopService
    \/ CallServiceToDict
    \/ CallServiceFromDict

Spec == Init /\ [][Next]_vars

\* ------------------------------------------------- calls with credentials
\* create_service called with a user name and a password, and
\* destroy_service to make room for the next container.
CallCreateServiceAs ==
    \E n \in Names, p \in Ports, i \in Images, u \in UserNames, pw \in Passwords :
        RecordAs("create_service", n, p, i, u, pw,
                 create_service(containers, hostPorts, n, p, i, u, pw))

NextEnv ==
    \/ CallCreateServiceAs
    \/ CallDestroyService

SpecEnv == Init /\ [][NextEnv]_vars

\* ------------------------------------------------------ concurrent calls
\* Two callers each make one call while the other is making its own.  A
\* step is one request to the daemon; the daemon serves one request at a
\* time.  The callers set off from any state that calls made one after the
\* other have brought the daemon to.
AllIdle == \A p \in Callers : procs[p].pc = "idle"

\* Before the callers set off, calls made one after another have brought the
\* daemon to its state; what they returned is not kept.
Setup ==
    /\ AllIdle
    /\ containers' \in
           {create_service(containers, hostPorts, n, p, i, None, None).rt :
               n \in Names, p \in Ports, i \in Images}
           \cup {destroy_service(containers, srv).rt : srv \in Handles}
           \cup {start_service(containers, hostPorts, srv).rt : srv \in Handles}
           \cup {stop_service(containers, srv).rt : srv \in Handles}
    /\ UNCHANGED <<hostPorts, call, procs>>

Goto(p, pc) == procs' = [procs EXCEPT ![p].pc = pc]
Finish(p, outcome) ==
    procs' = [procs EXCEPT ![p].pc = "done", ![p].outcome = outcome]

\* The calls the callers make.  Of a handle the handlers read the name only,
\* so that is what is kept of it.
CreatingCalls ==
    {[op |-> op, name |-> n, port |-> p] :
        op \in {"create_service", "require_service"}, n \in Names, p \in Ports}
HandleCalls ==
    {[op |-> op, name |-> srv._name, port |-> 0] :
        op \in {"destroy_service", "start_service", "stop_service"}, srv \in Handles}

PortFree(rt, host, port) == port \notin host /\ ~PortBoundByContainer(rt, port)

\* Both callers enter their calls.  clear: the call creates, and as the
\* callers set off no container has its name and its port is free.
Begin ==
    /\ AllIdle
    /\ \E entered \in [Callers -> CreatingCalls \cup HandleCalls] :
           procs' = [p \in Callers |->
               [op |-> entered[p].op, name |-> entered[p].name,
                port |-> entered[p].port,
                clear |-> (/\ entered[p] \in CreatingCalls
                           /\ ~NameUsed(containers, entered[p].name)
                           /\ PortFree(containers, hostPorts, entered[p].port)),
                pc |-> IF entered[p] \in CreatingCalls THEN "create" ELSE "get",
                outcome |-> "none"]]
    /\ UNCHANGED <<containers, hostPorts, call>>

\* dc.containers.run, first half: the daemon creates the container.
StepCreate(p) ==
    LET me == procs[p]
        made == ContainersCreate(containers, me.name, me.port,
                                 Environment(me.port, None, None))
    IN /\ me.pc = "create"
       /\ containers' = made.rt
       /\ IF made.error = NoError THEN Goto(p, "start")
          ELSE IF me.op = "require_service"
                  /\ RaisedByRun(made.error) = "ServiceAlreadyExists"
               THEN Goto(p, "get")
          ELSE Finish(p, RaisedByRun(made.error))
       /\ UNCHANGED <<hostPorts, call>>

\* container.start(): the second half of dc.containers.run, or the start
\* of start_service.
StepStart(p) ==
    LET me == procs[p]
        started == IF NameUsed(containers, me.name)
                   THEN ContainerStart(containers, hostPorts, me.name)
                   ELSE [rt |-> containers, error |-> NoSuchContainer]
    IN /\ me.pc = "start"
       /\ containers' = started.rt
       /\ IF started.error = NoError THEN Goto(p, "sleep")
          ELSE IF me.op = "start_service"
               THEN Finish(p, IF started.error = NoSuchContainer
                              THEN "docker.errors.NotFound"
                              ELSE "docker.errors.APIError")
          ELSE Finish(p, RaisedByRun(started.error))
       /\ UNCHANGED <<hostPorts, call>>

\* time.sleep(1), then the return
StepSleep(p) ==
    /\ procs[p].pc = "sleep"
    /\ Finish(p, "ok")
    /\ UNCHANGED <<containers, hostPorts, call>>

\* dc.containers.get: the first request of destroy_service, start_service
\* and stop_service, and the service_exists of require_service's fallback.
StepGet(p) ==
    LET me == procs[p]
        found == ContainersGet(containers, me.name).found
    IN /\ me.pc = "get"
       /\ IF me.op = "require_service"
          THEN Finish(p, get_service(containers, me.name, me.port).outcome)
          ELSE IF ~found
          THEN Finish(p, IF me.op = "destroy_service"
                         THEN "ServiceNotFound" ELSE "docker.errors.NotFound")
          ELSE Goto(p, IF me.op = "start_service" THEN "start" ELSE "stop")
       /\ UNCHANGED <<containers, hostPorts, call>>

\* container.stop() of destroy_service and of stop_service
StepStop(p) ==
    LET me == procs[p] IN
    /\ me.pc = "stop"
    /\ IF ~NameUsed(containers, me.name)
       THEN /\ Finish(p, IF me.op = "destroy_service"
                         THEN "ServiceNotFound" ELSE "docker.errors.NotFound")
            /\ UNCHANGED containers
       ELSE /\ containers' = ContainerStop(containers, me.name)
            /\ IF me.op = "destroy_service" THEN Goto(p, "remove")
               ELSE Finish(p, "ok")
    /\ UNCHANGED <<hostPorts, call>>

\* container.remove() of destroy_service
StepRemove(p) ==
    LET me == procs[p]
        removed == ContainerRemove(containers, me.name)
    IN /\ me.pc = "remove"
       /\ IF ~NameUsed(containers, me.name)
          THEN Finish(p, "ServiceNotFound") /\ UNCHANGED containers
          ELSE /\ containers' = removed.rt
               /\ Finish(p, IF removed.error = NoError
                            THEN "ok" ELSE "docker.errors.APIError")
       /\ UNCHANGED <<hostPorts, call>>

NextConc ==
    \/ Setup
    \/ Begin
    \/ \E p \in Callers : StepCreate(p)
    \/ \E p \in Callers : StepStart(p)
    \/ \E p \in Callers : StepSleep(p)
    \/ \E p \in Callers : StepGet(p)
    \/ \E p \in Callers : StepStop(p)
    \/ \E p \in Callers : StepRemove(p)

SpecConc == Init /\ [][NextConc]_vars

\* ------------------------------------------------------------ invariants
TypeOK ==
    /\ \A c \in containers :
           /\ c.name \in Names /\ c.port \in Ports /\ c.status \in Statuses
           /\ "CERISE_STORE_LOCATION_CLIENT" \in DOMAIN c.environment
    /\ hostPorts \subseteq Ports

\* ---------------------------------------------------------------- claims
CallSrv == ManagedService(call.name, call.port)
Running(rt, name) == \E c \in rt : c.name = name /\ c.status = "running"
BoundByOther(rt, name, port) ==
    \E c \in rt : c.name # name /\ c.status = "running" /\ c.port = port
NamesOf(rt) == {c.name : c \in rt}

\* C1: after create_service has returned without error, service_exists on
\* the same name returns true and get_service on the same name and port
\* returns a handle with that name and that port.
C1_CreateThenExistsAndGet ==
    (call.op = "create_service" /\ call.outcome = "ok") =>
        /\ call.srv = ManagedService(call.name, call.port)
        /\ service_exists(containers, call.name) = ReturnBool(containers, TRUE)
        /\ get_service(containers, call.name, call.port)
               = ReturnService(containers, ManagedService(call.name, call.port))

C1_Witness ==
    /\ call.op = "create_service" /\ call.outcome = "ok"
    /\ Cardinality(containers) = 2

\* C2: create_service with a name that a container already has, whatever
\* the status of that container, raises ServiceAlreadyExists for every port
\* and image, also when the port is bound by another container.
C2_CreateExistingName ==
    [][(call'.op = "create_service" /\ NameUsed(containers, call'.name))
        => call'.outcome = "ServiceAlreadyExists"]_vars

C2_Witness ==
    /\ call.op = "create_service" /\ call.outcome = "ServiceAlreadyExists"
    /\ BoundByOther(containers, call.name, call.port)
    /\ \E c \in containers : c.name = call.name /\ c.status = "created"

\* C3 as stated: create_service or require_service with a port that another
\* container has bound raises PortNotAvailable whatever the name.
C3_Original ==
    [][(/\ call'.op \in {"create_service", "require_service"}
        /\ BoundByOther(containers, call'.name, call'.port))
        => call'.outcome = "PortNotAvailable"]_vars

\* C3 amended: create_service or require_service with a port that another
\* container has bound raises PortNotAvailable when no container has the
\* requested name yet; require_service passes the error on.
C3_PortOccupied ==
    [][(/\ call'.op \in {"create_service", "require_service"}
        /\ BoundByOther(containers, call'.name, call'.port)
        /\ ~NameUsed(containers, call'.name))
        => call'.outcome = "PortNotAvailable"]_vars

C3_Witness ==
    /\ call.op = "require_service" /\ call.outcome = "PortNotAvailable"
    /\ BoundByOther(containers, call.name, call.port)

\* C4: destroy_service on a handle whose container exists removes that
\* container and no other; afterwards service_exists on the name returns
\* false and get_service raises ServiceNotFound.
C4_DestroyExisting ==
    [][(call'.op = "destroy_service" /\ NameUsed(containers, call'.name))
        => /\ call'.outcome = "ok"
           /\ containers' = containers \ Named(containers, call'.name)
           /\ service_exists(containers', call'.name) = ReturnBool(containers', FALSE)
           /\ get_service(containers', call'.name, call'.port)
                  = Raise(containers', "ServiceNotFound")]_vars

C4_Witness ==
    /\ call.op = "destroy_service" /\ call.outcome = "ok" /\ call.changed
    /\ \E c \in containers : c.status = "running"

\* C5: destroy_service on a handle whose name no container has raises
\* ServiceNotFound and leaves the containers and their statuses as they were.
C5_DestroyMissing ==
    [][(call'.op = "destroy_service" /\ ~NameUsed(containers, call'.name))
        => /\ call'.outcome = "ServiceNotFound"
           /\ containers' = containers]_vars

C5_Witness ==
    /\ call.op = "destroy_service" /\ call.outcome = "ServiceNotFound"
    /\ containers # {}

\* C6: a require_service that follows a require_service with the same name,
\* port and image that returned a handle returns a handle with the same
\* name too, raises nothing, and leaves the one container of that name as
\* the first call left it.
C6_RequireIdempotent ==
    [][(call'.op = "require_service" /\ call'.again)
        => /\ call.srv._name = call'.name
           /\ call'.outcome = "ok"
           /\ call'.srv._name = call'.name
           /\ containers' = containers
           /\ Cardinality(Named(containers', call'.name)) = 1]_vars

C6_Witness ==
    /\ call.op = "require_service" /\ call.again /\ call.outcome = "ok"
    /\ Running(containers, call.name)

\* C7: when require_service is called for a name whose container is stopped
\* (status exited) and returns, the returned service is running.
C7_RequireStartsStopped ==
    [][(/\ call'.op = "require_service"
        /\ \E c \in containers : c.name = call'.name /\ c.status = "exited"
        /\ call'.outcome = "ok")
        => service_is_running(containers', call'.srv).val]_vars

\* C8: service_from_dict(service_to_dict(srv)) gives back the name and the
\* port of srv when the container exists, and service_is_running on it is
\* the container's running state; the dictionary has the keys name and port
\* only; when the container does not exist service_from_dict raises
\* ServiceNotFound.
RoundTrip(rt, srv) ==
    LET d == service_to_dict(srv)
        r == service_from_dict(rt, d)
    IN /\ DOMAIN d = {"name", "port"}
       /\ IF NameUsed(rt, srv._name)
          THEN /\ r.outcome = "ok"
               /\ r.srv._name = srv._name
               /\ r.srv._port = srv._port
               /\ service_is_running(rt, r.srv) = ReturnBool(rt, Running(rt, srv._name))
          ELSE r.outcome = "ServiceNotFound"

C8_SerialisationRoundTrip ==
    /\ \A srv \in Handles : RoundTrip(containers, srv)
    /\ call.op = "service_from_dict" =>
           /\ call.outcome = (IF NameUsed(containers, call.name)
                              THEN "ok" ELSE "ServiceNotFound")
           /\ call.outcome = "ok" => call.srv = CallSrv

C8_Witness ==
    /\ call.op = "service_from_dict" /\ call.outcome = "ok"
    /\ call.port = BasePort + 1
    /\ \E c \in containers : c.name = call.name /\ c.status = "exited"

C10_StartStopIdempotent ==
    [][/\ (call'.op = "start_service" /\ Running(containers, call'.name))
           => (call'.outcome = "ok" /\ containers' = containers)
       /\ (/\ call'.op = "stop_service"
           /\ NameUsed(containers, call'.name)
           /\ ~Running(containers, call'.name))
           => (call'.outcome = "ok" /\ containers' = containers)
       /\ call'.op \in {"start_service", "stop_service"}
           => NamesOf(containers') = NamesOf(containers)]_vars

C10_Witness ==
    /\ call.op = "start_service" /\ call.outcome = "ok" /\ ~call.changed
    /\ call.again

\* C11: start_service and stop_service on a handle whose name no container
\* has raise ServiceNotFound.
C11_StartStopMissing ==
    [][(/\ call'.op \in {"start_service", "stop_service"}
        /\ ~NameUsed(containers, call'.name))
        => call'.outcome = "ServiceNotFound"]_vars

\* C12: service_is_running on a handle whose name no container has returns
\* false and raises nothing.
C12_IsRunningMissing ==
    [][(call'.op = "service_is_running" /\ ~NameUsed(containers, call'.name))
        => (call'.outcome = "ok" /\ call'.val = FALSE)]_vars

\* C13: service_exists returns true exactly when a container has the name,
\* whatever its status, never raises and leaves the daemon's state alone.
C13_ServiceExists ==
    [][call'.op = "service_exists"
        => /\ call'.outcome = "ok"
           /\ call'.val = NameUsed(containers, call'.name)
           /\ containers' = containers]_vars

C13_Witness ==
    /\ call.op = "service_exists" /\ call.outcome = "ok" /\ call.val
    /\ \E c \in containers : c.name = call.name /\ c.status = "created"

\* C14: the handle that require_service, get_service or service_from_dict
\* returns for a container that existed already carries the host port that
\* container was created with.
C14_HandlePort ==
    (/\ call.op \in {"require_service", "get_service", "service_from_dict"}
     /\ call.outcome = "ok"
     /\ ~call.changed)
        => \E c \in containers : c.name = call.srv._name /\ c.port = call.srv._port

C18_FailedCreateNoTrace ==
    [][(/\ call'.op = "create_service"
        /\ call'.outcome \in {"PortNotAvailable", "ServiceAlreadyExists"})
        => /\ containers' = containers
           /\ service_exists(containers', call'.name).val
                  = service_exists(containers, call'.name).val]_vars

\* C15: the environment of a container that create_service made has
\* CERISE_USERNAME exactly when user_name is neither None nor empty,
\* CERISE_PASSWORD exactly when password is neither None nor empty, and
\* CERISE_STORE_LOCATION_CLIENT = http://localhost:<port>/files.
C15_Environment ==
    (call.op = "create_service" /\ call.outcome = "ok") =>
        \A c \in Named(containers, call.name) :
            /\ ("CERISE_USERNAME" \in DOMAIN c.environment)
                   <=> (call.user_name \notin {None, Some("")})
            /\ ("CERISE_PASSWORD" \in DOMAIN c.environment)
                   <=> (call.password \notin {None, Some("")})
            /\ c.environment["CERISE_STORE_LOCATION_CLIENT"]
                   = "http://localhost:" \o ToString(call.port) \o "/files"

\* ------------------------------------------------- claims, concurrent calls
Returns(p) == procs[p].pc # "done" /\ procs'[p].pc = "done"

\* C16 as stated, for any two concurrent calls of create_service with the
\* same name: one has returned, the other has raised ServiceAlreadyExists,
\* and one container has that name.
C16_Original ==
    \A n \in Names :
        (\A p \in Callers :
            /\ procs[p].op = "create_service" /\ procs[p].pc = "done"
            /\ procs[p].name = n)
        => /\ \E p, q \in Callers :
                  /\ p # q
                  /\ procs[p].outcome = "ok"
                  /\ procs[q].outcome = "ServiceAlreadyExists"
           /\ Cardinality(Named(containers, n)) = 1

\* C16: when both callers have run create_service with the same name at the
\* same time, from a state in which the name was unused and the ports they
\* ask for were free, one call has returned and the other has raised
\* ServiceAlreadyExists, and one container has that name.
C16_ConcurrentCreate ==
    \A n \in Names :
        (\A p \in Callers :
            /\ procs[p].op = "create_service" /\ procs[p].pc = "done"
            /\ procs[p].name = n /\ procs[p].clear)
        => /\ \E p, q \in Callers :
                  /\ p # q
                  /\ procs[p].outcome = "ok"
                  /\ procs[q].outcome = "ServiceAlreadyExists"
           /\ Cardinality(Named(containers, n)) = 1

C16_Witness ==
    /\ \A p \in Callers :
           /\ procs[p].op = "create_service" /\ procs[p].pc = "done"
           /\ procs[p].name = NameSeq[1] /\ procs[p].clear
    /\ procs["caller_1"].port # procs["caller_2"].port
    /\ procs["caller_2"].outcome = "ok"
    /\ Cardinality(containers) = 2

\* C19: whatever the other caller does meanwhile, require_service never
\* raises ServiceAlreadyExists or ServiceNotFound, and a handle it returns
\* is the handle of a container that exists at that moment.
C19_RequireOutcomes ==
    [][\A p \in Callers :
          (Returns(p) /\ procs'[p].op = "require_service")
              => /\ procs'[p].outcome
                        \notin {"ServiceAlreadyExists", "ServiceNotFound"}
                 /\ procs'[p].outcome = "ok"
                        => NameUsed(containers', procs'[p].name)]_vars

\* C20: while the other caller runs start_service, stop_service or
\* destroy_service on the same name, destroy_service ends with the
\* container removed or raises ServiceNotFound.
C20_DestroyAtomic ==
    [][\A p, q \in Callers :
          (/\ p # q
           /\ Returns(p) /\ procs'[p].op = "destroy_service"
           /\ procs'[q].op \in {"start_service", "stop_service", "destroy_service"}
           /\ procs'[q].name = procs'[p].name)
              => \/ procs'[p].outcome = "ServiceNotFound"
                 \/ /\ procs'[p].outcome = "ok"
                    /\ ~NameUsed(containers', procs'[p].name)]_vars

====
